---- MODULE Spec2Model ----
(***************************************************************************)
(* ObjectSourceHandlers (src/src/handlers/ObjectSourceHandlers.ts): the    *)
(* three object-source tools of the ADT MCP server, as a state machine.    *)
(*                                                                         *)
(* An invocation of handle() is an async function: it runs synchronously   *)
(* up to its next await (session client call, readFile, mkdir, writeFile), *)
(* and other invocations may run while it is suspended.  Each action below *)
(* is one such synchronous stretch: the call of handle() up to the first   *)
(* await, or the continuation that runs when an awaited call returns or    *)
(* raises, up to the next await or the end of the method.                  *)
(***************************************************************************)
EXTENDS Integers, Sequences, FiniteSets

\* Number of invocations of handle() on the one handler instance.
MaxInv == 2
\* Last value of the clock (in rate-limit windows of one second).
MaxTime == 1

VARIABLES
    inv,        \* inv[i]: the i-th invocation of handle(): its arguments, locals, position
    metrics,    \* RequestMetrics of the handler instance (BaseHandler)
    files,      \* local storage: file path -> content, Undefined when there is no file
    dirs,       \* local storage: the directories that exist
    now         \* performance.now(), in whole seconds

vars == <<inv, metrics, files, dirs, now>>

(***************************************************************************)
(* JavaScript values.  A string is a sequence of tokens; undefined is a    *)
(* value of its own.                                                       *)
(***************************************************************************)
Undefined == [t |-> "undefined", v |-> <<>>]
Str(s) == [t |-> "string", v |-> s]
Num(n) == [t |-> "number", v |-> n]
Bool(b) == [t |-> "boolean", v |-> b]

\* if (x), !x, x || y on a string-or-undefined value: "" and undefined are falsy.
Truthy(x) == x.t = "string" /\ x.v # <<>>

\* ${x} in a template literal.
Interpolate(x) == IF x.t = "undefined" THEN <<"undefined">> ELSE x.v

\* Does string s (a token sequence) contain string part?
Contains(s, part) ==
    \E k \in 0..(Len(s) - Len(part)) : SubSeq(s, k + 1, k + Len(part)) = part

\* path.dirname on a path given as its sequence of components.
dirname(p) == IF Len(p) <= 1 THEN <<".">> ELSE SubSeq(p, 1, Len(p) - 1)

(***************************************************************************)
(* Errors.                                                                 *)
(***************************************************************************)
NoError == [name |-> "", code |-> "", message |-> Undefined]

\* new McpError(code, message): the SDK's constructor prefixes the message.
McpError(code, message) ==
    [name |-> "McpError", code |-> code,
     message |-> Str(<<"MCP error ", code, ": ">> \o message)]

\* An error of the platform or of the session client.
Error(code, message) == [name |-> "Error", code |-> code, message |-> message]

\* What a failing session client call can carry as its message.
CauseMessages == {Undefined, Str(<<>>), Str(<<"timeout">>)}
AdtErrors == {Error("", m) : m \in CauseMessages}

ENOENT == Error("ENOENT", Str(<<"ENOENT: no such file or directory">>))
EEXIST == Error("EEXIST", Str(<<"EEXIST: file already exists">>))
EACCES == Error("EACCES", Str(<<"EACCES: permission denied">>))
ENOSPC == Error("ENOSPC", Str(<<"ENOSPC: no space left on device">>))
LogError == Error("", Str(<<"write EPIPE">>))
\* dirname(undefined)
TypeError == Error("ERR_INVALID_ARG_TYPE",
                   Str(<<"The \"path\" argument must be of type string">>))

(***************************************************************************)
(* Inputs.                                                                 *)
(***************************************************************************)
Url == <<"/sap/bc/adt/oo/classes/zcl_example", "/source/main">>
P1 == <<"/tmp", "/out", "/zcl.abap">>
Paths == {P1}
T1 == <<"REPORT z.">>
T2 == <<"REPORT z.", "\n", "WRITE 'hi'.", "\n">>
\* What the session client can return as a source, what a file can hold.
Texts == {T1, T2}

NoArgs ==
    [objectSourceUrl |-> Undefined, options |-> Undefined, filePath |-> Undefined,
     source |-> Undefined, lockHandle |-> Undefined, transport |-> Undefined]

\* The tool names declared by getTools().
getTools == {"getObjectSource", "downloadObjectSource", "setObjectSource"}

\* The names handle() is called with: the declared ones and names of other handlers.
ToolNames == getTools \cup {"lock", "GetObjectSource"}

\* The source and filePath setObjectSource is called with: each absent, empty or
\* a value.
SourceAndFilePath ==
    {<<Undefined, Undefined>>, <<Str(<<>>), Undefined>>, <<Str(<<"X">>), Undefined>>,
     <<Undefined, Str(<<>>)>>, <<Undefined, Str(P1)>>,
     <<Str(<<>>), Str(P1)>>, <<Str(<<"X">>), Str(P1)>>}

\* The arguments handle() is called with, per tool name.
ArgsFor(toolName) ==
    CASE toolName = "getObjectSource" ->
           {[NoArgs EXCEPT !.objectSourceUrl = Str(Url)]}
      [] toolName = "downloadObjectSource" ->
           {[NoArgs EXCEPT !.objectSourceUrl = Str(Url), !.filePath = Str(P1)]}
      [] toolName = "setObjectSource" ->
           {[NoArgs EXCEPT !.objectSourceUrl = Str(Url),
                           !.source = sf[1], !.filePath = sf[2],
                           !.lockHandle = Str(<<"LOCK1">>), !.transport = Str(<<"K9A1">>)] :
               sf \in SourceAndFilePath}
      [] OTHER -> {[NoArgs EXCEPT !.objectSourceUrl = Str(Url)]}

(***************************************************************************)
(* Invocations.                                                            *)
(***************************************************************************)
Ids == 1..MaxInv

Pending == [kind |-> "pending", content |-> <<>>, error |-> NoError]
\* return { content: [ { type: 'text', text } ] }
Success(text) ==
    [kind |-> "success", content |-> <<[type |-> "text", text |-> text]>>,
     error |-> NoError]
\* throw error
Failure(error) == [kind |-> "failure", content |-> <<>>, error |-> error]

\* String(n) of a non-negative integer: its decimal digits.
RECURSIVE Decimal(_)
Decimal(n) ==
    LET digit == <<"0", "1", "2", "3", "4", "5", "6", "7", "8", "9">>[(n % 10) + 1]
    IN  IF n < 10 THEN <<digit>> ELSE Decimal(n \div 10) \o <<digit>>

\* JSON.stringify of a string: quoted, a line feed written as \n.
RECURSIVE Quoted(_)
Quoted(s) ==
    IF s = <<>> THEN <<>>
    ELSE <<IF Head(s) = "\n" THEN "\\n" ELSE Head(s)>> \o Quoted(Tail(s))

\* JSON.stringify of a member's value; a member whose value is undefined is left out.
JSONvalue(x) ==
    CASE x.t = "string" -> <<"\"">> \o Quoted(x.v) \o <<"\"">>
      [] x.t = "number" -> Decimal(x.v)
      [] x.t = "boolean" -> IF x.v THEN <<"true">> ELSE <<"false">>

RECURSIVE JSONmembers(_)
JSONmembers(members) ==
    IF members = <<>> THEN <<>>
    ELSE LET m == Head(members)
             rest == JSONmembers(Tail(members))
         IN  IF m[2].t = "undefined" THEN rest
             ELSE <<"\"", m[1], "\"", ":">> \o JSONvalue(m[2])
                      \o (IF rest = <<>> THEN <<>> ELSE <<",">> \o rest)

\* JSON.stringify of an object literal, given as its <<key, value>> members in
\* the order written.
JSONstringify(members) == <<"{">> \o JSONmembers(members) \o <<"}">>

\* One entry of an invocation's trace: a call it made (ev = "call", val = the
\* arguments), or how an awaited call ended (ev = "return" or "throw").
Ev(op, ev, val) == [op |-> op, ev |-> ev, val |-> val]

Idle ==
    [pc |-> "idle", tool |-> "", args |-> NoArgs, method |-> "", startTime |-> 0,
     source |-> Undefined, sourceContent |-> Undefined,
     trace |-> <<>>, outcome |-> Pending]

\* BaseHandler.trackRequest(startTime, success).
trackRequest(m, startTime, success) ==
    [totalRequests |-> m.totalRequests + 1,
     successCount |-> m.successCount + (IF success THEN 1 ELSE 0),
     errorCount |-> m.errorCount + (IF success THEN 0 ELSE 1),
     totalDurationMs |-> m.totalDurationMs + (now - startTime)]

Init ==
    /\ inv = [i \in Ids |-> Idle]
    /\ metrics = [totalRequests |-> 0, successCount |-> 0, errorCount |-> 0,
                  totalDurationMs |-> 0]
    /\ \E f \in {Undefined, Str(T1)} :
           /\ files = [p \in Paths |-> f]
           /\ dirs = (IF f = Undefined THEN {} ELSE {dirname(P1)})
    /\ now = 0

(***************************************************************************)
(* The parts the three operation methods share.                            *)
(***************************************************************************)
\* error.message, with no default.
CauseText_NoDefault(error) == Interpolate(error.message)

\* error.message || 'Unknown error'
CauseText(error) ==
    IF Truthy(error.message) THEN error.message.v ELSE <<"Unknown error">>

\* The trace of record r after this.trackRequest(startTime, success).
Tracked(r, success) == [r EXCEPT !.trace = Append(@, Ev("trackRequest", "call", success))]

\* The catch block throwing without a word to the metrics.
Catch_NoTrack(i, r, m, prefix, error) ==
    /\ inv' = [inv EXCEPT ![i] =
                 [r EXCEPT !.pc = "done",
                           !.outcome = Failure(McpError("InternalError",
                                                        prefix \o CauseText(error)))]]
    /\ metrics' = m

\* The catch block rethrowing what is an McpError already, wrapping the rest.
Catch_Rethrow(i, r, m, prefix, error) ==
    /\ inv' = [inv EXCEPT ![i] =
                 [Tracked(r, FALSE) EXCEPT
                           !.pc = "done",
                           !.outcome = Failure(IF error.name = "McpError" THEN error
                                               ELSE McpError("InternalError",
                                                             prefix \o CauseText(error)))]]
    /\ metrics' = trackRequest(m, r.startTime, FALSE)

\* The catch block of an operation method, entered with `error` by invocation
\* record r: trackRequest(startTime, false), then throw an InternalError.
Catch(i, r, m, prefix, error) ==
    /\ inv' = [inv EXCEPT ![i] =
                 [Tracked(r, FALSE) EXCEPT
                           !.pc = "done",
                           !.outcome = Failure(McpError("InternalError",
                                                        prefix \o CauseText(error)))]]
    /\ metrics' = trackRequest(m, r.startTime, FALSE)

\* return { content: [{ type: 'text', text }] }, with the metrics m as they are then.
Return(i, r, m, text) ==
    /\ inv' = [inv EXCEPT ![i] = [r EXCEPT !.pc = "done", !.outcome = Success(text)]]
    /\ metrics' = m

\* Operation method `method` is entered: const startTime = performance.now()
Started(r, method) ==
    [r EXCEPT !.method = method, !.startTime = now,
              !.trace = Append(@, Ev("performance.now", "call", now))]

\* The invocation suspends at an await of `op` called with `callArgs`.
Await(i, r, pc, op, callArgs) ==
    /\ inv' = [inv EXCEPT ![i] =
                 [r EXCEPT !.pc = pc, !.trace = Append(@, Ev(op, "call", callArgs))]]
    /\ UNCHANGED metrics

\* The awaited call of invocation record r ended: `ev` is "return" or "throw".
Resumed(r, op, ev, val) == [r EXCEPT !.trace = Append(@, Ev(op, ev, val))]

(***************************************************************************)
(* handleGetObjectSource                                                   *)
(***************************************************************************)
FailedToGet == <<"Failed to get object source: ">>

\* The payload that echoes the requested URL where the source belongs.
GetObjectSourceResult_Url(r) ==
    JSONstringify(<<<<"status", Str(<<"success">>)>>, <<"source", r.args.objectSourceUrl>>>>)

\* JSON.stringify({ status: 'success', source })
GetObjectSourceResult(r) ==
    JSONstringify(<<<<"status", Str(<<"success">>)>>, <<"source", r.source>>>>)

handleGetObjectSource(i, r) ==
    Await(i, Started(r, "handleGetObjectSource"), "awaitGetObjectSource",
          "adtclient.getObjectSource", <<r.args.objectSourceUrl, r.args.options>>)

\* The session client returned `source`.
GetObjectSourceReturns(i) ==
    /\ inv[i].pc = "awaitGetObjectSource"
    /\ inv[i].method = "handleGetObjectSource"
    /\ \E t \in Texts :
          LET r == [Resumed(inv[i], "adtclient.getObjectSource", "return", Str(t))
                      EXCEPT !.source = Str(t)]
          IN  Return(i, Tracked(r, TRUE), trackRequest(metrics, r.startTime, TRUE),
                     GetObjectSourceResult(r))
    /\ UNCHANGED <<files, dirs, now>>

\* The session client raised `error`.
GetObjectSourceRaises(i) ==
    /\ inv[i].pc = "awaitGetObjectSource"
    /\ inv[i].method = "handleGetObjectSource"
    /\ \E error \in AdtErrors :
          Catch(i, Resumed(inv[i], "adtclient.getObjectSource", "throw", error),
                metrics, FailedToGet, error)
    /\ UNCHANGED <<files, dirs, now>>

(***************************************************************************)
(* handleDownloadObjectSource                                              *)
(***************************************************************************)
FailedToDownload == <<"Failed to download object source: ">>

\* source.split('\n').length
lines(source) == 1 + Cardinality({k \in DOMAIN source : source[k] = "\n"})

RECURSIVE byteLength(_)
\* Buffer.byteLength(source, 'utf-8') of a text of one-byte characters.
byteLength(source) ==
    IF source = <<>> THEN 0 ELSE Len(Head(source)) + byteLength(Tail(source))

\* What logger.info can do: return, or raise.
LoggerOutcomes == {"return", "throw"}

handleDownloadObjectSource(i, r) ==
    Await(i, Started(r, "handleDownloadObjectSource"), "awaitGetObjectSource",
          "adtclient.getObjectSource", <<r.args.objectSourceUrl, r.args.options>>)

\* The session client returned `source`: dirname(args.filePath), mkdir(dir).
DownloadSourceReturns(i) ==
    /\ inv[i].pc = "awaitGetObjectSource"
    /\ inv[i].method = "handleDownloadObjectSource"
    /\ \E t \in Texts :
          LET r == [Resumed(inv[i], "adtclient.getObjectSource", "return", Str(t))
                      EXCEPT !.source = Str(t)]
          IN  IF r.args.filePath.t # "string"
              THEN Catch(i, r, metrics, FailedToDownload, TypeError)
              ELSE Await(i, r, "awaitMkdir", "mkdir", dirname(r.args.filePath.v))
    /\ UNCHANGED <<files, dirs, now>>

DownloadSourceRaises(i) ==
    /\ inv[i].pc = "awaitGetObjectSource"
    /\ inv[i].method = "handleDownloadObjectSource"
    /\ \E error \in AdtErrors :
          Catch(i, Resumed(inv[i], "adtclient.getObjectSource", "throw", error),
                metrics, FailedToDownload, error)
    /\ UNCHANGED <<files, dirs, now>>

\* The catch around mkdir swallowing every error.
MkdirErrorIgnored_Any(err) == TRUE

\* The catch around mkdir rethrowing every error.
MkdirErrorIgnored_Never(err) == FALSE

\* Does the catch around mkdir swallow this error?  err.code !== 'EEXIST' rethrows.
MkdirErrorIgnored(err) == err.code = "EEXIST"

\* The source kept in a field of the handler, which every invocation assigns:
\* writeFile is given whatever an invocation stored there last.
AwaitWriteFile_Shared(i, r) ==
    \E j \in Ids :
        /\ inv[j].source # Undefined
        /\ Await(i, r, "awaitWriteFile", "writeFile", <<r.args.filePath, inv[j].source>>)

\* The source written in its JSON form.
AwaitWriteFile_Quoted(i, r) ==
    Await(i, r, "awaitWriteFile", "writeFile", <<r.args.filePath, Str(Quoted(r.source.v))>>)

\* writeFile(args.filePath, source, 'utf-8')
AwaitWriteFile(i, r) ==
    Await(i, r, "awaitWriteFile", "writeFile", <<r.args.filePath, r.source>>)

\* mkdir(dir, { recursive: true }) returned: the directory exists now.
MkdirReturns(i) ==
    /\ inv[i].pc = "awaitMkdir"
    /\ dirs' = dirs \cup {dirname(inv[i].args.filePath.v)}
    /\ AwaitWriteFile(i, Resumed(inv[i], "mkdir", "return", Undefined))
    /\ UNCHANGED <<files, now>>

\* What mkdir(dir, { recursive: true }) can raise: for a directory that exists,
\* that it exists; for one that does not, that something else has its name or
\* that it may not be created.
MkdirErrors(dir) == IF dir \in dirs THEN {EEXIST} ELSE {EEXIST, EACCES}

\* mkdir raised: an already-exists error is ignored, any other one is rethrown.
MkdirRaises(i) ==
    /\ inv[i].pc = "awaitMkdir"
    /\ \E err \in MkdirErrors(dirname(inv[i].args.filePath.v)) :
          LET r == Resumed(inv[i], "mkdir", "throw", err)
          IN  IF MkdirErrorIgnored(err)
              THEN AwaitWriteFile(i, r)
              ELSE Catch(i, r, metrics, FailedToDownload, err)
    /\ UNCHANGED <<files, dirs, now>>

\* JSON.stringify({ status: 'success', savedTo: args.filePath, lines, size })
DownloadResult(r) ==
    JSONstringify(<<<<"status", Str(<<"success">>)>>,
                    <<"savedTo", r.args.filePath>>,
                    <<"lines", Num(lines(r.source.v))>>,
                    <<"size", Num(byteLength(r.source.v))>>>>)

\* The call an invocation is suspended in: the last event of its trace.
AwaitedCall(r) == r.trace[Len(r.trace)]

\* The file system carries out the awaited writeFile: the file holds what the
\* call was given.  The invocation stays suspended until its continuation runs.
FileWritten(i) ==
    /\ inv[i].pc = "awaitWriteFile"
    /\ dirname(inv[i].args.filePath.v) \in dirs
    /\ files' = [files EXCEPT ![AwaitedCall(inv[i]).val[1].v] = AwaitedCall(inv[i]).val[2]]
    /\ inv' = [inv EXCEPT ![i].pc = "awaitWriteFileSettled"]
    /\ UNCHANGED <<metrics, dirs, now>>

\* writeFile returned: the stats, trackRequest(startTime, true), logger.info,
\* return.
WriteFileReturns(i) ==
    /\ inv[i].pc = "awaitWriteFileSettled"
    /\ \E log \in LoggerOutcomes :
          LET r == Resumed(inv[i], "writeFile", "return", Undefined)
              text == DownloadResult(r)
          IN  IF log = "return"
              THEN Return(i, Resumed(Tracked(r, TRUE), "logger.info", "return", Undefined),
                          trackRequest(metrics, r.startTime, TRUE), text)
              ELSE Catch(i, Resumed(Tracked(r, TRUE), "logger.info", "throw", LogError),
                         trackRequest(metrics, r.startTime, TRUE),
                         FailedToDownload, LogError)
    /\ UNCHANGED <<files, dirs, now>>

\* writeFile raised.
WriteFileRaises(i) ==
    /\ inv[i].pc = "awaitWriteFile"
    /\ \E err \in (IF dirname(inv[i].args.filePath.v) \in dirs THEN {ENOSPC} ELSE {ENOENT}) :
          Catch(i, Resumed(inv[i], "writeFile", "throw", err), metrics,
                FailedToDownload, err)
    /\ UNCHANGED <<files, dirs, now>>

(***************************************************************************)
(* handleSetObjectSource                                                   *)
(***************************************************************************)
FailedToSet == <<"Failed to set object source: ">>

\* The first check alone.
ValidationError_NoBothCheck(args) ==
    IF ~Truthy(args.source) /\ ~Truthy(args.filePath)
    THEN McpError("InvalidParams", <<"Either source or filePath must be provided">>)
    ELSE NoError

\* The two checks on source and filePath: the error thrown, NoError when both pass.
ValidationError(args) ==
    IF ~Truthy(args.source) /\ ~Truthy(args.filePath)
    THEN McpError("InvalidParams", <<"Either source or filePath must be provided">>)
    ELSE IF Truthy(args.source) /\ Truthy(args.filePath)
    THEN McpError("InvalidParams",
                  <<"Cannot use both source and filePath. Use one or the other.">>)
    ELSE NoError

\* The catch around readFile and logger.info.
ReadFileError(args, err) ==
    McpError("InvalidRequest",
             <<"Failed to read file ">> \o Interpolate(args.filePath) \o <<": ">>
                 \o Interpolate(err.message))

\* The call made and not awaited: nothing resumes the invocation.
AwaitSetObjectSource_Lost(i, r) ==
    Await(i, r, "lost", "adtclient.setObjectSource",
          <<r.args.objectSourceUrl, r.sourceContent, r.args.lockHandle, r.args.transport>>)

\* adtclient.setObjectSource(objectSourceUrl, sourceContent, lockHandle, transport)
AwaitSetObjectSource(i, r) ==
    Await(i, r, "awaitSetObjectSource", "adtclient.setObjectSource",
          <<r.args.objectSourceUrl, r.sourceContent, r.args.lockHandle, r.args.transport>>)

handleSetObjectSource(i, r0) ==
    LET r == Started(r0, "handleSetObjectSource")
        invalid == ValidationError(r.args)
    IN  IF invalid # NoError
        THEN Catch(i, Resumed(r, "validation", "throw", invalid), metrics,
                   FailedToSet, invalid)
        ELSE IF Truthy(r.args.filePath)
        THEN Await(i, r, "awaitReadFile", "readFile", r.args.filePath)
        ELSE AwaitSetObjectSource(i, [r EXCEPT !.sourceContent = r.args.source])

\* readFile returned the content of the file: logger.info, then the session client.
ReadFileReturns(i) ==
    /\ inv[i].pc = "awaitReadFile"
    /\ files[inv[i].args.filePath.v] # Undefined
    /\ \E log \in LoggerOutcomes :
          LET content == files[inv[i].args.filePath.v]
              r == [Resumed(inv[i], "readFile", "return", content)
                      EXCEPT !.sourceContent = content]
          IN  IF log = "return"
              THEN AwaitSetObjectSource(i, Resumed(r, "logger.info", "return", Undefined))
              ELSE Catch(i, Resumed(r, "logger.info", "throw", LogError), metrics,
                         FailedToSet, ReadFileError(r.args, LogError))
    /\ UNCHANGED <<files, dirs, now>>

\* readFile raised: there is no such file.
ReadFileRaises(i) ==
    /\ inv[i].pc = "awaitReadFile"
    /\ files[inv[i].args.filePath.v] = Undefined
    /\ Catch(i, Resumed(inv[i], "readFile", "throw", ENOENT), metrics,
             FailedToSet, ReadFileError(inv[i].args, ENOENT))
    /\ UNCHANGED <<files, dirs, now>>

\* The session client returned.
SetObjectSourceReturns(i) ==
    /\ inv[i].pc = "awaitSetObjectSource"
    /\ LET r == Resumed(inv[i], "adtclient.setObjectSource", "return", Undefined)
       IN  Return(i, Tracked(r, TRUE), trackRequest(metrics, r.startTime, TRUE),
                  JSONstringify(<<<<"status", Str(<<"success">>)>>,
                                  <<"updated", Bool(TRUE)>>,
                                  <<"sourceLoadedFrom",
                                    IF Truthy(r.args.filePath)
                                    THEN Str(<<"File: ">> \o Interpolate(r.args.filePath))
                                    ELSE Str(<<"Context (direct source)">>)>>>>))
    /\ UNCHANGED <<files, dirs, now>>

\* The session client raised `error`.
SetObjectSourceRaises(i) ==
    /\ inv[i].pc = "awaitSetObjectSource"
    /\ \E error \in AdtErrors :
          Catch(i, Resumed(inv[i], "adtclient.setObjectSource", "throw", error),
                metrics, FailedToSet, error)
    /\ UNCHANGED <<files, dirs, now>>

(***************************************************************************)
(* handle                                                                  *)
(***************************************************************************)
\* Two cases of the switch exchanged, and a default that falls into a method.
Route_Swapped(toolName) ==
    CASE toolName = "getObjectSource" -> "handleDownloadObjectSource"
      [] toolName = "downloadObjectSource" -> "handleGetObjectSource"
      [] toolName = "setObjectSource" -> "handleSetObjectSource"
      [] OTHER -> "handleGetObjectSource"

\* The operation method handle() routes toolName to, "" when it has none.
Route(toolName) ==
    CASE toolName = "getObjectSource" -> "handleGetObjectSource"
      [] toolName = "downloadObjectSource" -> "handleDownloadObjectSource"
      [] toolName = "setObjectSource" -> "handleSetObjectSource"
      [] OTHER -> ""

handle(i, toolName, args) ==
    LET r == [inv[i] EXCEPT !.tool = toolName, !.args = args]
    IN  CASE Route(toolName) = "handleGetObjectSource" -> handleGetObjectSource(i, r)
          [] Route(toolName) = "handleDownloadObjectSource" -> handleDownloadObjectSource(i, r)
          [] Route(toolName) = "handleSetObjectSource" -> handleSetObjectSource(i, r)
          [] OTHER ->
               /\ inv' = [inv EXCEPT ![i] =
                            [r EXCEPT !.pc = "done",
                                      !.outcome = Failure(McpError("MethodNotFound",
                                          <<"Unknown object source tool: ", toolName>>))]]
               /\ UNCHANGED metrics

\* The next call of handle(), with any tool name and arguments.
Handle(i) ==
    /\ inv[i].pc = "idle"
    /\ \A j \in Ids : j < i => inv[j].pc # "idle"
    /\ \E toolName \in ToolNames : \E args \in ArgsFor(toolName) : handle(i, toolName, args)
    /\ UNCHANGED <<files, dirs, now>>

\* Time passes.
Tick ==
    /\ now < MaxTime
    /\ now' = now + 1
    /\ UNCHANGED <<inv, metrics, files, dirs>>

Next ==
    \E i \in Ids :
        \/ Handle(i)
        \/ GetObjectSourceReturns(i)
        \/ GetObjectSourceRaises(i)
        \/ DownloadSourceReturns(i)
        \/ DownloadSourceRaises(i)
        \/ MkdirReturns(i)
        \/ MkdirRaises(i)
        \/ FileWritten(i)
        \/ WriteFileReturns(i)
        \/ WriteFileRaises(i)
        \/ ReadFileReturns(i)
        \/ ReadFileRaises(i)
        \/ SetObjectSourceReturns(i)
        \/ SetObjectSourceRaises(i)

\* The handler at one instant: the clock stands still while it runs.
Spec == Init /\ [][Next]_vars

\* The external call invocation i is suspended in ends: it returns or raises,
\* and the invocation runs on to its next await or to its end.
Resume(i) ==
    \/ GetObjectSourceReturns(i)
    \/ GetObjectSourceRaises(i)
    \/ DownloadSourceReturns(i)
    \/ DownloadSourceRaises(i)
    \/ MkdirReturns(i)
    \/ MkdirRaises(i)
    \/ FileWritten(i)
    \/ WriteFileReturns(i)
    \/ WriteFileRaises(i)
    \/ ReadFileReturns(i)
    \/ ReadFileRaises(i)
    \/ SetObjectSourceReturns(i)
    \/ SetObjectSourceRaises(i)

\* The handler when every external call ends: a suspended invocation is
\* resumed by the event loop once the promise it awaits settles.
SpecFair == Spec /\ \A i \in Ids : WF_vars(Resume(i))

NextTimed == Next \/ Tick

\* The handler with time passing between its steps.
SpecTimed == Init /\ [][NextTimed]_vars

(***************************************************************************)
(* What the properties below read off an invocation.                       *)
(***************************************************************************)
AdtOps == {"adtclient.getObjectSource", "adtclient.setObjectSource"}
StorageOps == {"readFile", "mkdir", "writeFile"}

\* The positions in invocation i's trace of its calls of, returns from and
\* errors raised by the operations `ops`.
Called(i, ops) ==
    {k \in DOMAIN inv[i].trace : inv[i].trace[k].ev = "call" /\ inv[i].trace[k].op \in ops}
Returned(i, ops) ==
    {k \in DOMAIN inv[i].trace : inv[i].trace[k].ev = "return" /\ inv[i].trace[k].op \in ops}
Threw(i, ops) ==
    {k \in DOMAIN inv[i].trace : inv[i].trace[k].ev = "throw" /\ inv[i].trace[k].op \in ops}

IsDone(i) == inv[i].pc = "done"
IsSet(i) == inv[i].pc # "idle" /\ inv[i].tool = "setObjectSource"
FailedWith(i, code) ==
    inv[i].outcome.kind = "failure" /\ inv[i].outcome.error.code = code

\* source or filePath is supplied: the argument is present, whatever string it is.
Supplied(x) == x.t = "string"

(***************************************************************************)
(* C1  setObjectSource with neither source nor filePath supplied, or with  *)
(* both supplied, fails and the failure delivered to the caller has error  *)
(* kind InvalidParams.                                                     *)
(***************************************************************************)
C1_InvalidParamsDelivered ==
    \A i \in Ids :
        (IsSet(i) /\ Supplied(inv[i].args.source) = Supplied(inv[i].args.filePath))
            => (IsDone(i) /\ FailedWith(i, "InvalidParams"))

(***************************************************************************)
(* C2  A setObjectSource invocation whose validation of source and         *)
(* filePath fails (neither of them given, or both, a value counting as     *)
(* given when the validation takes it as such: a non-empty string) ends in *)
(* failure, having read no file and called no method of the session        *)
(* client.                                                                 *)
(***************************************************************************)
ValidationFailed(i) == Threw(i, {"validation"}) # {}

C3_ExactlyOneDelegates ==
    \A i \in Ids :
        LET a == inv[i].args
            calls == Called(i, {"adtclient.setObjectSource"})
            reads == Returned(i, {"readFile"})
        IN  /\ (IsSet(i) /\ Supplied(a.source) /\ ~Supplied(a.filePath))
                   => /\ Cardinality(calls) = 1
                      /\ \A k \in calls :
                            inv[i].trace[k].val =
                                <<a.objectSourceUrl, a.source, a.lockHandle, a.transport>>
            /\ (IsSet(i) /\ Supplied(a.filePath) /\ ~Supplied(a.source) /\ reads # {})
                   => /\ Cardinality(calls) = 1
                      /\ \A k \in calls : \A rd \in reads :
                            inv[i].trace[k].val =
                                <<a.objectSourceUrl, inv[i].trace[rd].val,
                                  a.lockHandle, a.transport>>

(***************************************************************************)
(* C4  A setObjectSource invocation with only filePath supplied whose file *)
(* read fails delivers a failure of kind InvalidRequest whose message      *)
(* embeds the read failure's message, and never calls the session client.  *)
(***************************************************************************)
C4_ReadFailureIsInvalidRequest ==
    \A i \in Ids :
        \A k \in Threw(i, {"readFile"}) :
            /\ IsDone(i)
            /\ FailedWith(i, "InvalidRequest")
            /\ Contains(inv[i].outcome.error.message.v, inv[i].trace[k].val.message.v)
            /\ Called(i, AdtOps) = {}

(***************************************************************************)
(* C5  In each of the three operation methods, a failure raised by the     *)
(* session client call ends the invocation in a failure of kind            *)
(* InternalError whose message contains the cause's message, or "Unknown   *)
(* error" when the cause's message is empty or absent, and is not empty.   *)
(***************************************************************************)
C5_RemoteFailureIsInternalError ==
    \A i \in Ids :
        \A k \in Threw(i, AdtOps) :
            LET cause == inv[i].trace[k].val.message
                message == inv[i].outcome.error.message
            IN  /\ IsDone(i)
                /\ FailedWith(i, "InternalError")
                /\ message.t = "string" /\ message.v # <<>>
                /\ IF cause.t = "string" /\ cause.v # <<>>
                   THEN Contains(message.v, cause.v)
                   ELSE Contains(message.v, <<"Unknown error">>)

\* The session client has failed two invocations of different tools, one with
\* no message and one with an empty message.
C5_Witness ==
    \E i, j \in Ids :
        /\ inv[i].tool # inv[j].tool
        /\ \E k \in Threw(i, AdtOps) : inv[i].trace[k].val.message = Undefined
        /\ \E k \in Threw(j, AdtOps) : inv[j].trace[k].val.message = Str(<<>>)

(***************************************************************************)
(* C6  Every invocation of an operation method calls trackRequest exactly  *)
(* once on every path: never twice, and once when it has completed.        *)
(***************************************************************************)
C6_TrackedExactlyOnce ==
    \A i \in Ids :
        inv[i].method # "" =>
            /\ Cardinality(Called(i, {"trackRequest"})) <= 1
            /\ IsDone(i) => Cardinality(Called(i, {"trackRequest"})) = 1

(***************************************************************************)
(* C7  When the N invocations of handle made so far (of the handler's own  *)
(* tools, interleaved in any way) have all completed, totalRequests = N    *)
(* and successCount + errorCount = N.                                      *)
(***************************************************************************)
Invoked == {i \in Ids : inv[i].pc # "idle"}

C7_MetricsCountInvocations ==
    (\A i \in Invoked : IsDone(i) /\ inv[i].tool \in getTools)
        => /\ metrics.totalRequests = Cardinality(Invoked)
           /\ metrics.successCount + metrics.errorCount = Cardinality(Invoked)

(***************************************************************************)
(* C8  handle runs, for each of the three names getTools declares, exactly *)
(* the operation method of that name; for any other name it fails with     *)
(* MethodNotFound and calls neither the session client nor local storage.  *)
(***************************************************************************)
\* What an operation method calls, which tells the three apart.
Footprint(method) ==
    CASE method = "handleGetObjectSource" -> {"adtclient.getObjectSource"}
      [] method = "handleDownloadObjectSource" ->
           {"adtclient.getObjectSource", "mkdir", "writeFile"}
      [] method = "handleSetObjectSource" -> {"adtclient.setObjectSource", "readFile"}
      [] OTHER -> {}

C8_RoutesByName ==
    \A i \in Invoked :
        LET name == inv[i].tool
            expected ==
                IF name = "getObjectSource" THEN "handleGetObjectSource"
                ELSE IF name = "downloadObjectSource" THEN "handleDownloadObjectSource"
                ELSE IF name = "setObjectSource" THEN "handleSetObjectSource"
                ELSE ""
        IN  /\ inv[i].method = expected
            /\ \A k \in Called(i, AdtOps \cup StorageOps) :
                  inv[i].trace[k].op \in Footprint(expected)
            /\ name \in getTools => Called(i, {"performance.now"}) # {}
            /\ name \notin getTools =>
                  /\ IsDone(i)
                  /\ FailedWith(i, "MethodNotFound")
                  /\ inv[i].trace = <<>>

\* One invocation under a declared name has reached the session client, another
\* under an undeclared name has been refused.
C8_Witness ==
    \E i, j \in Invoked :
        /\ inv[i].tool = "downloadObjectSource" /\ Called(i, {"writeFile"}) # {}
        /\ inv[j].tool \notin getTools /\ FailedWith(j, "MethodNotFound")

(***************************************************************************)
(* C9  At most one call per one-second window is accepted: of two calls of *)
(* the handler's tools arriving in the same window, the second is rejected *)
(* before it reaches the session client.                                   *)
(***************************************************************************)
C9_RateLimited ==
    \A i, j \in Invoked :
        (i # j /\ inv[i].method # "" /\ inv[j].method # ""
             /\ inv[i].startTime = inv[j].startTime)
            => ~(Called(i, AdtOps) # {} /\ Called(j, AdtOps) # {})

(***************************************************************************)
(* C10  An invocation calls the session client at most once and retries    *)
(* nothing: once the session client call, the file read, the directory     *)
(* creation or the file write has failed, it makes no further call to the  *)
(* session client or to local storage.                                     *)
(***************************************************************************)
\* Is entry k of invocation i's trace a call of one of the operations `ops`?
IsCall(i, k, ops) == inv[i].trace[k].ev = "call" /\ inv[i].trace[k].op \in ops

\* Is it one of them raising an error?
IsThrow(i, k, ops) == inv[i].trace[k].ev = "throw" /\ inv[i].trace[k].op \in ops

\* Does invocation i call the session client or local storage after position k?
CallsAfter(i, k) ==
    \E c \in DOMAIN inv[i].trace : c > k /\ IsCall(i, c, AdtOps \cup StorageOps)

C10_NothingAfterFailure ==
    \A i \in Ids : \A k \in DOMAIN inv[i].trace :
        /\ IsCall(i, k, AdtOps) =>
              \A c \in DOMAIN inv[i].trace : IsCall(i, c, AdtOps) => c = k
        /\ IsThrow(i, k, AdtOps \cup StorageOps) => ~CallsAfter(i, k)

(***************************************************************************)
(* C10, with the already-exists error set apart: an invocation calls the   *)
(* session client at most once and no operation of local storage twice;    *)
(* once the session client call, the file read, the file write, or the     *)
(* directory creation with an error other than already-exists has failed,  *)
(* it makes no further call; after an already-exists error of the          *)
(* directory creation it goes on to the file write and calls nothing else. *)
(***************************************************************************)
C10_NothingAfterFailureButExists ==
    \A i \in Ids : \A k \in DOMAIN inv[i].trace :
        /\ IsCall(i, k, AdtOps) =>
              \A c \in DOMAIN inv[i].trace : IsCall(i, c, AdtOps) => c = k
        /\ IsCall(i, k, StorageOps) =>
              \A c \in DOMAIN inv[i].trace : IsCall(i, c, {inv[i].trace[k].op}) => c = k
        /\ IsThrow(i, k, AdtOps \cup StorageOps) =>
              IF inv[i].trace[k].op = "mkdir" /\ inv[i].trace[k].val.code = "EEXIST"
              THEN /\ k + 1 \in DOMAIN inv[i].trace
                   /\ IsCall(i, k + 1, {"writeFile"})
                   /\ ~CallsAfter(i, k + 1)
              ELSE ~CallsAfter(i, k)

\* One invocation has ended after a directory creation refused for lack of
\* permission, another after a failed file write.
C10_Witness ==
    \E i, j \in Ids :
        /\ IsDone(i) /\ \E k \in Threw(i, {"mkdir"}) : inv[i].trace[k].val.code = "EACCES"
        /\ IsDone(j) /\ Threw(j, {"writeFile"}) # {}

(***************************************************************************)
(* Reading a result: JSON.parse of the text of a content block, one member *)
(* at a time.                                                              *)
(***************************************************************************)
\* Where the member `key` starts in the JSON text, 0 when it has no such member.
JSONfind(text, key) ==
    LET at == {p \in 1..(Len(text) - 4) : SubSeq(text, p, p + 3) = <<"\"", key, "\"", ":">>}
    IN  IF at = {} THEN 0 ELSE CHOOSE p \in at : \A q \in at : p <= q

\* The characters of a JSON string, \n read back as a line feed.
RECURSIVE Unquoted(_)
Unquoted(s) ==
    IF s = <<>> THEN <<>>
    ELSE <<IF Head(s) = "\\n" THEN "\n" ELSE Head(s)>> \o Unquoted(Tail(s))

\* The string value of member `key` (Undefined when it has none or another type).
JSONstring(text, key) ==
    LET p == JSONfind(text, key)
    IN  IF p = 0 \/ text[p + 4] # "\"" THEN Undefined
        ELSE LET close == CHOOSE e \in (p + 5)..Len(text) :
                              /\ text[e] = "\""
                              /\ \A q \in (p + 5)..(e - 1) : text[q] # "\""
             IN  Str(Unquoted(SubSeq(text, p + 5, close - 1)))

Digits == <<"0", "1", "2", "3", "4", "5", "6", "7", "8", "9">>
DigitValue(d) == (CHOOSE n \in 1..10 : Digits[n] = d) - 1

RECURSIVE NumberAt(_, _, _)
\* The number whose digits start at text[p], read after the value `acc` so far.
NumberAt(text, p, acc) ==
    IF p <= Len(text) /\ \E n \in 1..10 : Digits[n] = text[p]
    THEN NumberAt(text, p + 1, 10 * acc + DigitValue(text[p]))
    ELSE acc

\* The number value of member `key`, -1 when it has none or another type.
JSONnumber(text, key) ==
    LET p == JSONfind(text, key)
    IN  IF p = 0 \/ ~(\E n \in 1..10 : Digits[n] = text[p + 4]) THEN -1
        ELSE NumberAt(text, p + 4, 0)

\* The result is a Success of exactly one content block, of type text.
OneTextBlock(i) ==
    /\ inv[i].outcome.kind = "success"
    /\ Len(inv[i].outcome.content) = 1
    /\ inv[i].outcome.content[1].type = "text"

ResultText(i) == inv[i].outcome.content[1].text

(***************************************************************************)
(* C11  getObjectSource returns a Success result if and only if the        *)
(* session client's getObjectSource call returned; the result has exactly  *)
(* one content block, of type text, whose payload has status "success" and *)
(* the source the session client returned to this invocation.              *)
(***************************************************************************)
C11_GetReturnsTheSource ==
    \A i \in Ids :
        inv[i].method = "handleGetObjectSource" =>
            LET n == Len(inv[i].trace)
                returned == \E k \in 1..n :
                               /\ inv[i].trace[k].op = "adtclient.getObjectSource"
                               /\ inv[i].trace[k].ev = "return"
            IN  /\ (inv[i].outcome.kind = "success") = returned
                /\ returned =>
                      /\ OneTextBlock(i)
                      /\ JSONstring(ResultText(i), "status") = Str(<<"success">>)
                      /\ \A k \in 1..n :
                            (inv[i].trace[k].op = "adtclient.getObjectSource"
                                 /\ inv[i].trace[k].ev = "return")
                                => JSONstring(ResultText(i), "source") = inv[i].trace[k].val

\* getObjectSource has returned the two-line source to its caller.
C11_Witness ==
    \E i \in Ids :
        /\ inv[i].tool = "getObjectSource" /\ IsDone(i)
        /\ OneTextBlock(i)
        /\ JSONstring(ResultText(i), "source") = Str(T2)

(***************************************************************************)
(* C12  downloadObjectSource performs its steps in a fixed order: fetch    *)
(* from the session client, ensure the parent directory of filePath        *)
(* exists, write the whole file, record success.  A step runs only when    *)
(* every earlier step succeeded, so a remote failure leaves local storage  *)
(* untouched (no directory created, no file written), and a Success result *)
(* implies that the file at filePath holds exactly the source the session  *)
(* client returned.                                                        *)
(***************************************************************************)
IsDownload(i) == inv[i].method = "handleDownloadObjectSource"

\* Event k of invocation i's trace is `ev` of operation `op`.
IsEv(i, k, op, ev) ==
    /\ k \in DOMAIN inv[i].trace
    /\ inv[i].trace[k].op = op
    /\ inv[i].trace[k].ev = ev

\* The parent directory was ensured by event k: mkdir returned, or reported
\* that the directory exists.
Ensured(i, k) ==
    \/ IsEv(i, k, "mkdir", "return")
    \/ IsEv(i, k, "mkdir", "throw") /\ inv[i].trace[k].val.code = "EEXIST"

\* The steps of one download, each directly after the success of the one before.
DownloadInOrder(i) ==
    \A k \in DOMAIN inv[i].trace :
        /\ IsEv(i, k, "adtclient.getObjectSource", "call")
               => IsEv(i, k - 1, "performance.now", "call")
        /\ IsEv(i, k, "mkdir", "call")
               => IsEv(i, k - 1, "adtclient.getObjectSource", "return")
        /\ IsEv(i, k, "writeFile", "call") => Ensured(i, k - 1)
        /\ (IsEv(i, k, "trackRequest", "call") /\ inv[i].trace[k].val = TRUE)
               => IsEv(i, k - 1, "writeFile", "return")
        /\ IsEv(i, k, "adtclient.getObjectSource", "throw")
               => \A n \in DOMAIN inv[i].trace :
                      inv[i].trace[n].op \notin {"mkdir", "writeFile"}

\* The source the session client returned to invocation i is `val`.
SourceReturned(r, val) ==
    \E k \in DOMAIN r.trace :
        /\ r.trace[k].op = "adtclient.getObjectSource"
        /\ r.trace[k].ev = "return"
        /\ r.trace[k].val = val

\* The step in which a download learns of the remote failure changes no
\* directory and no file.
RemoteFailureStep(i) ==
    (inv[i].pc = "awaitGetObjectSource" /\ inv'[i].pc = "done")
        => (files' = files /\ dirs' = dirs)

\* As the claim has it: when a download delivers Success, the file at filePath
\* holds the source the session client returned to it.
C12_DownloadStepsInOrder ==
    /\ [](\A i \in Ids : IsDownload(i) => DownloadInOrder(i))
    /\ [][\A i \in Ids :
            (IsDownload(i) /\ inv'[i] # inv[i])
                => /\ RemoteFailureStep(i)
                   /\ (inv'[i].outcome.kind = "success")
                          => SourceReturned(inv'[i], files'[inv'[i].args.filePath.v])]_vars

\* Amended: the write of a download that delivers Success was given the source
\* the session client returned to it, and left the file holding it when it was
\* carried out; what the file holds when the result is delivered is not said.
C12_DownloadWroteTheSource ==
    /\ [](\A i \in Ids : IsDownload(i) => DownloadInOrder(i))
    /\ [][\A i \in Ids :
            (IsDownload(i) /\ inv'[i] # inv[i])
                => /\ RemoteFailureStep(i)
                   /\ (inv'[i].outcome.kind = "success")
                          => \E k \in DOMAIN inv[i].trace :
                                 /\ IsEv(i, k, "writeFile", "call")
                                 /\ inv[i].trace[k].val[1] = inv[i].args.filePath
                                 /\ SourceReturned(inv[i], inv[i].trace[k].val[2])
                   /\ (inv'[i].pc = "awaitWriteFileSettled")
                          => SourceReturned(inv[i], files'[inv[i].args.filePath.v])]_vars

\* A download has succeeded with the two-line source, and the file holds it.
C12_Witness ==
    \E i \in Ids :
        /\ IsDownload(i) /\ IsDone(i)
        /\ inv[i].outcome.kind = "success"
        /\ inv[i].source = Str(T2)
        /\ files[inv[i].args.filePath.v] = Str(T2)

(***************************************************************************)
(* C13  The directory creation of downloadObjectSource is idempotent and   *)
(* otherwise strict.  When the directory already exists (an already-exists *)
(* error from the creation call included) the invocation continues to the  *)
(* file write and can still succeed, so ensuring the same directory twice  *)
(* in a row never fails the second time.  When the creation fails for any  *)
(* other reason the invocation ends in failure, no file is written and the *)
(* failure is recorded in metrics.                                         *)
(***************************************************************************)
\* What followed each error the creation call raised to invocation i.
MkdirErrorHandled(i) ==
    \A k \in DOMAIN inv[i].trace :
        IsEv(i, k, "mkdir", "throw") =>
            IF inv[i].trace[k].val.code = "EEXIST"
            THEN IsEv(i, k + 1, "writeFile", "call")
            ELSE /\ IsDone(i)
                 /\ inv[i].outcome.kind = "failure"
                 /\ IsEv(i, k + 1, "trackRequest", "call")
                 /\ inv[i].trace[k + 1].val = FALSE
                 /\ \A n \in DOMAIN inv[i].trace : inv[i].trace[n].op # "writeFile"

\* The step that ends the creation call of invocation i: with the directory
\* there already it goes on to the write; failing, it counts one more error
\* and leaves the files as they are.
MkdirStep(i) ==
    inv[i].pc = "awaitMkdir" =>
        /\ dirname(inv[i].args.filePath.v) \in dirs => inv'[i].pc = "awaitWriteFile"
        /\ inv'[i].pc = "done" =>
              /\ metrics'.errorCount = metrics.errorCount + 1
              /\ files' = files

C13_MkdirIdempotentAndStrict ==
    /\ [](\A i \in Ids : IsDownload(i) => MkdirErrorHandled(i))
    /\ [][\A i \in Ids : inv'[i] # inv[i] => MkdirStep(i)]_vars

\* A download was told that the directory exists already, went on to write
\* the file and has succeeded.
C13_Witness ==
    \E i \in Ids :
        /\ IsDone(i) /\ inv[i].outcome.kind = "success"
        /\ dirname(inv[i].args.filePath.v) \in dirs
        /\ \E k \in DOMAIN inv[i].trace :
              /\ IsEv(i, k, "mkdir", "throw") /\ inv[i].trace[k].val.code = "EEXIST"
              /\ IsEv(i, k + 1, "writeFile", "call")

(***************************************************************************)
(* C14  Within each invocation the metrics bookkeeping is ordered: the     *)
(* start timestamp is taken before any validation, file I/O or             *)
(* session-client call; the outcome is recorded only after the last        *)
(* external step of the invocation has finished; and on every failure path *)
(* the failure is recorded in metrics before it is delivered to the        *)
(* caller.                                                                 *)
(***************************************************************************)
ExternalOps == AdtOps \cup StorageOps

Classified == {"InvalidParams", "InvalidRequest", "InternalError", "MethodNotFound"}

\* Invocation i has one outcome exactly when it is over, none before.
OneOutcome(i) ==
    IF IsDone(i)
    THEN \/ inv[i].outcome.kind = "success"
         \/ inv[i].outcome.kind = "failure" /\ inv[i].outcome.error.code \in Classified
    ELSE inv[i].outcome = Pending

C15_EventuallyCompletes ==
    /\ \A i \in Ids : (inv[i].pc # "idle") ~> IsDone(i)
    /\ [](\A i \in Ids : OneOutcome(i))
    /\ [][\A i \in Ids : IsDone(i) => inv'[i] = inv[i]]_vars

\* Two invocations that were suspended in external calls are both over, one
\* with a Success result and one with a failure.
C15_Witness ==
    \E i, j \in Ids :
        /\ IsDone(i) /\ inv[i].outcome.kind = "success"
        /\ IsDone(j) /\ inv[j].outcome.kind = "failure"
        /\ \E k \in DOMAIN inv[i].trace : inv[i].trace[k].op \in ExternalOps
        /\ \E k \in DOMAIN inv[j].trace : inv[j].trace[k].op \in ExternalOps

(***************************************************************************)
(* C16  On success downloadObjectSource reports size equal to the UTF-8    *)
(* byte length of the text and lines equal to the number of lines of the   *)
(* text (the same number whether or not the last line ends with a line     *)
(* feed), together with status "success" and savedTo equal to the filePath *)
(* it was given.                                                           *)
(***************************************************************************)
\* The number of lines of a text: one per line feed, and one more for a last
\* line that no line feed ends.
LineCount(text) ==
    LET feeds == {k \in DOMAIN text : text[k] = "\n"}
    IN  Cardinality(feeds) + (IF text # <<>> /\ text[Len(text)] # "\n" THEN 1 ELSE 0)

C16_DownloadReportsStats ==
    \A i \in Ids :
        (IsDownload(i) /\ IsDone(i) /\ inv[i].outcome.kind = "success") =>
            /\ OneTextBlock(i)
            /\ JSONstring(ResultText(i), "status") = Str(<<"success">>)
            /\ JSONstring(ResultText(i), "savedTo") = inv[i].args.filePath
            /\ JSONnumber(ResultText(i), "size") = byteLength(inv[i].source.v)
            /\ JSONnumber(ResultText(i), "lines") = LineCount(inv[i].source.v)

(***************************************************************************)
(* C17  Every failure that leaves one of the three operation methods has   *)
(* kind InternalError, whatever raised it: a validation error, a file      *)
(* error or a session-client error.  The only failure of another kind that *)
(* handle can deliver is MethodNotFound, for a tool name it does not know. *)
(***************************************************************************)
C17_FailuresAreInternalError ==
    \A i \in Ids :
        inv[i].outcome.kind = "failure" =>
            IF inv[i].method # ""
            THEN inv[i].outcome.error.code = "InternalError"
            ELSE /\ inv[i].outcome.error.code = "MethodNotFound"
                 /\ inv[i].tool \notin getTools

\* A setObjectSource that failed its validation has delivered its failure, and
\* so has a call of a tool that is not declared.
C17_Witness ==
    \E i, j \in Ids :
        /\ IsDone(i) /\ ValidationFailed(i) /\ inv[i].outcome.kind = "failure"
        /\ IsDone(j) /\ inv[j].method = "" /\ inv[j].outcome.kind = "failure"

(***************************************************************************)
(* C18  Concurrent invocations do not interfere: under any interleaving    *)
(* each invocation passes to the session client only values derived from   *)
(* its own arguments and its own file read, and its result reports only    *)
(* what the session client returned to that invocation.  The handler keeps *)
(* no state of one invocation that another can read or overwrite; the      *)
(* metrics counters are the only state invocations share.                  *)
(***************************************************************************)
\* What invocation i read from its file is `val`.
FileRead(i, val) ==
    \E k \in DOMAIN inv[i].trace : IsEv(i, k, "readFile", "return") /\ inv[i].trace[k].val = val

\* Every value invocation i handed to the session client or to the file system
\* is its own, and so is the source in its result.
OwnValuesOnly(i) ==
    /\ \A k \in DOMAIN inv[i].trace :
          /\ IsEv(i, k, "adtclient.getObjectSource", "call")
                => inv[i].trace[k].val = <<inv[i].args.objectSourceUrl, inv[i].args.options>>
          /\ IsEv(i, k, "adtclient.setObjectSource", "call")
                => /\ inv[i].trace[k].val[1] = inv[i].args.objectSourceUrl
                   /\ inv[i].trace[k].val[3] = inv[i].args.lockHandle
                   /\ inv[i].trace[k].val[4] = inv[i].args.transport
                   /\ IF Truthy(inv[i].args.filePath)
                      THEN FileRead(i, inv[i].trace[k].val[2])
                      ELSE inv[i].trace[k].val[2] = inv[i].args.source
          /\ IsEv(i, k, "readFile", "call") => inv[i].trace[k].val = inv[i].args.filePath
          /\ IsEv(i, k, "writeFile", "call")
                => /\ inv[i].trace[k].val[1] = inv[i].args.filePath
                   /\ SourceReturned(inv[i], inv[i].trace[k].val[2])
    /\ (inv[i].method = "handleGetObjectSource" /\ inv[i].outcome.kind = "success")
          => SourceReturned(inv[i], JSONstring(ResultText(i), "source"))

C18_NoInterference ==
    /\ [](\A i \in Ids : OwnValuesOnly(i))
    /\ [][\A i, j \in Ids : (i # j /\ inv'[i] # inv[i]) => inv'[j] = inv[j]]_vars

\* Two downloads were in flight together, the session client having returned
\* different sources to them, and both have written.
C18_Witness ==
    \E i, j \in Ids :
        /\ IsDownload(i) /\ IsDownload(j)
        /\ inv[i].source = Str(T1) /\ inv[j].source = Str(T2)
        /\ inv[i].pc = "awaitWriteFileSettled" /\ inv[j].pc = "awaitWriteFileSettled"

====
